---- MODULE Spec2Model ----
(***************************************************************************)
(* Model lifecycle manager and prediction ledger of the flight-delay       *)
(* service: ModelManager (src/src/schemas/modelmanager.py) and the routes  *)
(* /model/load/, /model/predict/ and /model/history/                        *)
(* (src/src/routes/model_routes.py).                                       *)
(*                                                                         *)
(* Scheduling.  The routes are `async def`, so their bodies run on the one *)
(* event-loop thread and are atomic between awaits.  The load route has    *)
(* one await (`await file.read()`, inside the `with open(...)` block).     *)
(* The predict route obtains its model through the synchronous dependency  *)
(* `Depends(model_manager.get_model)`, which the framework runs in a       *)
(* worker thread: get_model can therefore run at any bytecode boundary of  *)
(* the event-loop thread, in particular between the assignment of          *)
(* self.model (modelmanager.py:29) and that of self.current_model_id       *)
(* (modelmanager.py:40).  get_model reads self.model only, so one          *)
(* intermediate point inside ModelManager.load_model is enough.            *)
(*                                                                         *)
(* Values.  Python None is NoModel / NoId / NoFile.  A float is kept in    *)
(* tenths (10.5 is 105).  A Python value whose type matters is a record    *)
(* [type, val].  A timestamp is the string strftime returns; no operation  *)
(* reads one back, so all timestamps are one opaque value.                 *)
(***************************************************************************)
EXTENDS Integers, Sequences, FiniteSets, TLC

\* ------------------------------------------------------------- bounds ---
MaxReq == 3        \* requests handled in one run
NumHashes == 2     \* distinct strings random.choices returns in generate_hash
MaxHist == 2       \* history calls followed between two ledger writes
MaxSaves == 1      \* direct calls of ModelManager.save_prediction

Reqs == 1..MaxReq
Hashes == 1..NumHashes

\* -------------------------------------------------------------- values --
NoId == 0
NoModel == [gen |-> 0, art |-> "none"]
NoFile == [ino |-> 0, content |-> "absent"]

\* An uploaded filename is <<stem, extension>>.
Filenames == {<<"a", ".pkl">>, <<"a", ".txt">>}
NoName == <<"", "">>

\* Bytes a client can upload: a pickle of a predict-capable object whose
\* predict answers ("lin"), one whose predict raises ("brk"), or bytes that
\* are no pickle at all ("corrupt").
Artifacts == {"lin", "brk", "corrupt"}

Platforms == {"posix", "windows"}

IntV(n) == [type |-> "int", val |-> n]
FloatV(n) == [type |-> "float", val |-> n]
StrV(s) == [type |-> "str", val |-> s]

\* JSON bodies a client posts to /model/predict/.  dep_time arrives as a JSON
\* string of digits (tests/test_model.py:234) or as a JSON number
\* (src/test_main.py:11); the last body breaks the month validator.
RowTable ==
  << [dep_time |-> StrV(<<"1", "3", "4", "5">>), dep_delay |-> FloatV(105),
      origin |-> StrV("JFK"), dest |-> StrV("LAX"), carrier |-> StrV("AA"),
      distance |-> FloatV(24750), month |-> IntV(7)],
     [dep_time |-> IntV(5), dep_delay |-> FloatV(0 - 30),
      origin |-> StrV("GRU"), dest |-> StrV("JFK"), carrier |-> StrV("LA"),
      distance |-> FloatV(0), month |-> IntV(12)],
     [dep_time |-> IntV(100), dep_delay |-> FloatV(105),
      origin |-> StrV("JFK"), dest |-> StrV("LAX"), carrier |-> StrV("AA"),
      distance |-> FloatV(24750), month |-> IntV(13)] >>
RowIds == 1..Len(RowTable)

FieldNames == {"dep_time", "dep_delay", "origin", "dest", "carrier", "distance", "month"}

\* ------------------------------------------------------------ variables -
VARIABLES
  model,             \* ModelManager.model
  current_model_id,  \* ModelManager.current_model_id
  models,            \* model_db.models, the audit trail
  predictions,       \* prediction_db.predictions, the ledger
  files,             \* temp files on disk, by uploaded filename
  platform,          \* operating system the process runs on
  req,               \* the requests: position and locals of each handler
  nDeser,            \* history: joblib.load calls that returned an object
  idGen,             \* history: gen of the load that set current_model_id
  modelsGhost,       \* history: per audit record, the load that wrote it
  ledgerGhost,       \* history: per ledger entry, the inference behind it
  okLoads,           \* history: records of the loads answered with 200
  histories,         \* responses of /model/history/ since the last ledger write
  saves,             \* outcomes of the direct calls of save_prediction
  fixtureAt          \* history: nDeser + 1 when the test fixture last ran, or 0

vars == <<model, current_model_id, models, predictions, files, platform,
          req, nDeser, idGen, modelsGhost, ledgerGhost, okLoads, histories,
          saves, fixtureAt>>

IdleReq == [pc |-> "idle", kind |-> "none", filename |-> NoName,
            content |-> "none", ino |-> 0, row |-> 0, mdl |-> NoModel,
            status |-> 0, detail |-> "none", src |-> "none"]

Init ==
  /\ model = NoModel
  /\ current_model_id = NoId
  /\ models = <<>>
  /\ predictions = <<>>
  /\ files = [fn \in Filenames |-> NoFile]
  /\ platform \in Platforms
  /\ req = [r \in Reqs |-> IdleReq]
  /\ nDeser = 0
  /\ idGen = 0
  /\ modelsGhost = <<>>
  /\ ledgerGhost = <<>>
  /\ okLoads = <<>>
  /\ histories = <<>>
  /\ saves = <<>>
  /\ fixtureAt = 0

\* ------------------------------------------------------ pure functions --
\* An extension test that lets every filename through.
EndsWithPkl_Always(fn) == TRUE

\* file.filename.endswith(".pkl")
EndsWithPkl(fn) == fn[2] = ".pkl"

\* open(file_path, "wb") by request r: creates the file or truncates the
\* existing one.  A file is identified by the request that created it.
open_wb(fs, fn, r) ==
  IF fs[fn] = NoFile
    THEN [fs EXCEPT ![fn] = [ino |-> r, content |-> "empty"]]
    ELSE [fs EXCEPT ![fn] = [ino |-> fs[fn].ino, content |-> "empty"]]

\* f.write(content) and the close at the end of the with block, through a
\* handle on file ino: the bytes reach the path only if the path still names
\* that file.
write_close(fs, fn, ino, c) ==
  IF fs[fn] # NoFile /\ fs[fn].ino = ino
    THEN [fs EXCEPT ![fn] = [ino |-> ino, content |-> c]]
    ELSE fs

\* joblib.load(file_path): the object, or an exception.
joblib_load(fs, fn) ==
  IF fs[fn] # NoFile /\ fs[fn].content \in {"lin", "brk"}
    THEN [ok |-> TRUE, art |-> fs[fn].content]
    ELSE [ok |-> FALSE, art |-> "none"]

\* os.remove(file_path); inUse: another handle is open on the file.  Unix
\* removes the directory entry, Windows raises when the file is in use.
os_remove(fs, fn, inUse, os) ==
  IF fs[fn] = NoFile \/ (inUse /\ os = "windows")
    THEN [ok |-> FALSE, fs |-> fs]
    ELSE [ok |-> TRUE, fs |-> [fs EXCEPT ![fn] = NoFile]]

Digit(d) == <<"0", "1", "2", "3", "4", "5", "6", "7", "8", "9">>[d + 1]

\* str(n) for an int n >= 0: its decimal digits.
RECURSIVE IntToStr(_)
IntToStr(n) ==
  IF n < 10 THEN <<Digit(n)>> ELSE Append(IntToStr(n \div 10), Digit(n % 10))

DigitVal(c) == CHOOSE d \in 0..9 : Digit(d) = c

\* int(s) for a string of decimal digits.
RECURSIVE StrToInt(_)
StrToInt(s) ==
  IF Len(s) = 0 THEN 0
  ELSE 10 * StrToInt(SubSeq(s, 1, Len(s) - 1)) + DigitVal(s[Len(s)])

\* The FlightInfo built from a body: `dep_time: int` accepts a numeric
\* string and converts it.
FlightInfo(body) ==
  [body EXCEPT !.dep_time =
     IntV(IF body.dep_time.type = "str" THEN StrToInt(body.dep_time.val)
          ELSE body.dep_time.val)]

\* The three field validators.
Valid(fi) ==
  /\ ~(fi.dep_time.val < 0)
  /\ ~(fi.month.val < 1 \/ fi.month.val > 12)
  /\ ~(fi.distance.val < 0)

\* input_data of the predict route.
InputData(fi) ==
  [dep_time |-> StrV(IntToStr(fi.dep_time.val)),
   dep_delay |-> fi.dep_delay,
   origin |-> fi.origin,
   dest |-> fi.dest,
   carrier |-> fi.carrier,
   distance |-> fi.distance,
   month |-> fi.month]

\* model.predict(input_df): a one-element array, or an exception with its
\* message.
Predict(m, input) ==
  IF m.art = "lin"
    THEN [ok |-> TRUE, val |-> input.dep_delay.val + input.month.val + m.gen,
          msg |-> ""]
    ELSE [ok |-> FALSE, val |-> 0, msg |-> "predict raised"]

\* A predict route without its try/except around model.predict.
PredictRaised_Swallowed(prediction) == FALSE

\* The except clause of the predict route is entered.
PredictRaised(prediction) == ~prediction.ok

\* A predict route that reports its failure with the text of the load route.
PredictErrorDetail_AsLoad(msg) == "Erro ao carregar o modelo"

\* f"Error while attempting to predict: {str(e)}"
PredictErrorDetail(msg) == "Error while attempting to predict: " \o msg

\* get_current_time, and datetime.now().strftime in the predict route.
get_current_time == "dd/mm/yyyy hh:mm:ss"

\* generate_hash: eight characters drawn at random.  Ids are opaque, so the
\* strings are numbered in the order they first appear: a draw repeats an id
\* of the trail or is the next new one.
generate_hash(trail) ==
  LET used == {trail[i].model_id : i \in 1..Len(trail)}
      unused == Hashes \ used
  IN used \cup {h \in unused : \A g \in unused : h <= g}

\* A load that clears the slot when deserialization fails.
ModelAfterDeserialize_Clears(old, res, obj) == IF res.ok THEN obj ELSE NoModel

\* self.model after `self.model = joblib.load(file_path)` inside the try.
ModelAfterDeserialize(old, res, obj) == IF res.ok THEN obj ELSE old

\* A get_model without its None test.
GetModelRaises_Never(m) == FALSE

\* The test of get_model.
GetModelRaises(m) == m = NoModel

\* A load that forgets to write its audit record.
TrailInsert_Dropped(trail, rec) == trail

\* self.model_db.models.insert_one(model_entry)
TrailInsert(trail, rec) == Append(trail, rec)

\* A load that sets the id only when none is set yet.
IdAfterLoad_KeepsFirst(old, model_id) == IF old = NoId THEN model_id ELSE old

\* self.current_model_id = model_id
IdAfterLoad(old, model_id) == model_id

\* An insert that writes the whole collection back from a stale read.
LedgerInsert_Replaces(ledger, entry) == <<entry>>

\* An insert that stores the entry twice.
LedgerInsert_Twice(ledger, entry) == Append(Append(ledger, entry), entry)

\* prediction_db.predictions.insert_one(prediction_entry)
LedgerInsert(ledger, entry) == Append(ledger, entry)

\* The keys get_prediction_history reads from every document.
HistoryFields == {"model_id", "prediction_time", "payload", "prediction_value"}

\* A find() that consumes the documents it returns.
CollectionAfterFind_Drained(ledger) == <<>>

\* prediction_db.predictions.find(): a read, the collection stays as it is.
CollectionAfterFind(ledger) == ledger

\* A history that lists the newest entry first.
HistoryOf_Reversed(ledger) ==
  [i \in 1..Len(ledger) |->
     LET prediction == ledger[Len(ledger) + 1 - i]
     IN [model_id |-> prediction.model_id,
         prediction_time |-> prediction.prediction_time,
         payload |-> prediction.payload,
         prediction_value |-> prediction.prediction_value]]

\* The loop of get_prediction_history over the cursor, which yields the
\* documents in insertion order.
HistoryOf(ledger) ==
  [i \in 1..Len(ledger) |->
     LET prediction == ledger[i]
     IN [model_id |-> prediction.model_id,
         prediction_time |-> prediction.prediction_time,
         payload |-> prediction.payload,
         prediction_value |-> prediction.prediction_value]]

\* prediction["..."] raises KeyError on a document that lacks the key.
HistoryRaises(ledger) ==
  \E i \in 1..Len(ledger) : ~(HistoryFields \subseteq DOMAIN ledger[i])

\* ------------------------------------------------------------- actions --
\* The event-loop thread is inside ModelManager.load_model, between the
\* assignment of self.model and the rest of the try block.
InWindow == \E r \in Reqs : req[r].pc = "window"

\* Requests are numbered in the order they arrive.
CanStart(r) == req[r].pc = "idle" /\ \A q \in 1..(r - 1) : req[q].pc # "idle"

Respond(r, st, det, s) ==
  [IdleReq EXCEPT !.pc = "done", !.kind = req[r].kind, !.status = st,
                  !.detail = det, !.src = s]

\* POST /model/load/ up to `await file.read()`.
LoadStart(r, fn, c) ==
  /\ ~InWindow
  /\ CanStart(r)
  /\ IF ~EndsWithPkl(fn)
       THEN /\ req' = [req EXCEPT ![r] =
                        [IdleReq EXCEPT !.pc = "done", !.kind = "load", !.filename = fn,
                           !.status = 400,
                           !.detail = "O arquivo deve ser um arquivo .pkl", !.src = "ext"]]
            /\ files' = files
       ELSE /\ files' = open_wb(files, fn, r)
            /\ req' = [req EXCEPT ![r] =
                        [IdleReq EXCEPT !.pc = "read", !.kind = "load", !.filename = fn,
                           !.content = c, !.ino = files'[fn].ino]]
  /\ UNCHANGED <<model, current_model_id, models, predictions, platform,
                 nDeser, idGen, modelsGhost, ledgerGhost, okLoads, histories,
                 saves, fixtureAt>>

\* From the return of file.read() to `self.model = joblib.load(file_path)`.
LoadRead(r) ==
  /\ ~InWindow
  /\ req[r].pc = "read"
  /\ LET fn == req[r].filename
         fs == write_close(files, fn, req[r].ino, req[r].content)
         res == joblib_load(fs, fn)
         obj == [gen |-> nDeser + 1, art |-> res.art]
     IN /\ files' = fs
        /\ model' = ModelAfterDeserialize(model, res, obj)
        /\ IF res.ok
             THEN /\ nDeser' = nDeser + 1
                  /\ req' = [req EXCEPT ![r].pc = "window", ![r].mdl = obj,
                                        ![r].content = "none", ![r].ino = 0]
             ELSE /\ nDeser' = nDeser
                  /\ req' = [req EXCEPT ![r] =
                              Respond(r, 500, "Erro ao carregar o modelo", "load_model")]
  /\ UNCHANGED <<current_model_id, models, predictions, platform,
                 idGen, modelsGhost, ledgerGhost, okLoads, histories,
                 saves, fixtureAt>>

\* The rest of ModelManager.load_model, then os.remove and the response.
LoadCommit(r) ==
  /\ req[r].pc = "window"
  /\ \E model_id \in generate_hash(models) :
       LET fn == req[r].filename
           load_time == get_current_time
           model_entry == [model_id |-> model_id, load_time |-> load_time]
           inUse == \E q \in Reqs \ {r} :
                      req[q].pc = "read" /\ req[q].ino = files[fn].ino
           rm == os_remove(files, fn, inUse, platform)
       IN /\ models' = TrailInsert(models, model_entry)
          /\ modelsGhost' = Append(modelsGhost, [req |-> r, gen |-> req[r].mdl.gen])
          /\ current_model_id' = IdAfterLoad(current_model_id, model_id)
          /\ idGen' = req[r].mdl.gen
          /\ files' = rm.fs
          /\ IF rm.ok
               THEN /\ req' = [req EXCEPT ![r] =
                                Respond(r, 200, "Modelo carregado com sucesso", "ok")]
                    /\ okLoads' = Append(okLoads, model_entry)
               ELSE /\ req' = [req EXCEPT ![r] =
                                Respond(r, 500, "Erro ao carregar o modelo", "os.remove")]
                    /\ okLoads' = okLoads
  /\ UNCHANGED <<model, predictions, platform, nDeser, ledgerGhost, histories,
                 saves, fixtureAt>>

\* POST /model/predict/ arrives; get_model is handed to a worker thread.
PredictStart(r, row) ==
  /\ ~InWindow
  /\ CanStart(r)
  /\ req' = [req EXCEPT ![r] = [IdleReq EXCEPT !.pc = "dep", !.kind = "predict",
                                                !.row = row]]
  /\ UNCHANGED <<model, current_model_id, models, predictions, files, platform,
                 nDeser, idGen, modelsGhost, ledgerGhost, okLoads, histories,
                 saves, fixtureAt>>

\* ModelManager.get_model, in the worker thread.
GetModel(r) ==
  /\ req[r].pc = "dep"
  /\ IF GetModelRaises(model)
       THEN req' = [req EXCEPT ![r] =
                      Respond(r, 400, "O modelo nao foi carregado.", "get_model")]
       ELSE req' = [req EXCEPT ![r].pc = "body", ![r].mdl = model]
  /\ UNCHANGED <<model, current_model_id, models, predictions, files, platform,
                 nDeser, idGen, modelsGhost, ledgerGhost, okLoads, histories,
                 saves, fixtureAt>>

\* Validation of the body, then the body of predict_flight_delay, on the
\* event loop (the framework validates after it has solved the dependency).
PredictBody(r) ==
  /\ ~InWindow
  /\ req[r].pc = "body"
  /\ LET flight_info == FlightInfo(RowTable[req[r].row])
         input_data == InputData(flight_info)
         prediction == Predict(req[r].mdl, input_data)
     IN IF ~Valid(flight_info)
          THEN /\ req' = [req EXCEPT ![r] =
                           Respond(r, 422, "validation error", "validation")]
               /\ UNCHANGED <<predictions, ledgerGhost, histories>>
        ELSE IF PredictRaised(prediction)
          THEN /\ req' = [req EXCEPT ![r] =
                           Respond(r, 500, PredictErrorDetail(prediction.msg), "predict")]
               /\ UNCHANGED <<predictions, ledgerGhost, histories>>
          ELSE LET prediction_time == get_current_time
                   prediction_entry ==
                       [model_id |-> current_model_id,
                        prediction_value |-> FloatV(prediction.val),
                        prediction_time |-> prediction_time,
                        payload |-> input_data]
                 IN /\ predictions' = LedgerInsert(predictions, prediction_entry)
                    /\ histories' = <<>>
                    /\ ledgerGhost' = Append(ledgerGhost,
                         [req |-> r, row |-> req[r].row, usedGen |-> req[r].mdl.gen,
                          idGen |-> idGen])
                    /\ req' = [req EXCEPT ![r] =
                                Respond(r, 200, "predicted_arrival_delay", "ok")]
  /\ UNCHANGED <<model, current_model_id, models, files, platform, nDeser, idGen,
                 modelsGhost, okLoads, saves, fixtureAt>>

\* GET /model/history/: the route has no await.  A KeyError leaves the
\* route as a 500.
History ==
  /\ ~InWindow
  /\ Len(histories) < MaxHist
  /\ predictions' = CollectionAfterFind(predictions)
  /\ histories' = Append(histories,
        IF HistoryRaises(predictions)
          THEN [status |-> 500, history |-> <<>>]
          ELSE [status |-> 200, history |-> HistoryOf(predictions)])
  /\ UNCHANGED <<model, current_model_id, models, files, platform, req, nDeser,
                 idGen, modelsGhost, ledgerGhost, okLoads, saves, fixtureAt>>

Next ==
  \/ \E r \in Reqs, fn \in Filenames, c \in Artifacts : LoadStart(r, fn, c)
  \/ \E r \in Reqs : LoadRead(r)
  \/ \E r \in Reqs : LoadCommit(r)
  \/ \E r \in Reqs, row \in RowIds : PredictStart(r, row)
  \/ \E r \in Reqs : GetModel(r)
  \/ \E r \in Reqs : PredictBody(r)
  \/ History

Spec == Init /\ [][Next]_vars

\* ModelManager.save_prediction(prediction_value), called on the manager of
\* the routes by code other than the routes.
SavePrediction(prediction_value) ==
  /\ ~InWindow
  /\ Len(saves) < MaxSaves
  /\ IF current_model_id = NoId
       THEN /\ saves' = Append(saves, 400)
            /\ UNCHANGED <<predictions, ledgerGhost, histories>>
       ELSE LET prediction_entry ==
                  [model_id |-> current_model_id,
                   prediction_value |-> prediction_value,
                   prediction_time |-> get_current_time]
            IN /\ predictions' = LedgerInsert(predictions, prediction_entry)
               /\ ledgerGhost' = Append(ledgerGhost,
                    [req |-> 0, row |-> 0, usedGen |-> idGen, idGen |-> idGen])
               /\ histories' = <<>>
               /\ saves' = Append(saves, 0)
  /\ UNCHANGED <<model, current_model_id, models, files, platform, req, nDeser,
                 idGen, modelsGhost, okLoads, fixtureAt>>

\* The routes together with direct calls of the manager's public methods.
NextApi ==
  \/ Next
  \/ \E prediction_value \in {FloatV(10)} : SavePrediction(prediction_value)

SpecApi == Init /\ [][NextApi]_vars

\* The test client is synchronous: a fixture runs while no request is being
\* handled.
Quiescent == \A r \in Reqs : req[r].pc \in {"idle", "done"}

\* db.predictions.delete_many({})
DeleteMany(ledger) == <<>>

\* The manager of the routes after `model_manager = ModelManager();
\* model_manager.model = None`: the assignment is made on a new object that
\* the fixture alone holds, the module-level manager of the routes keeps its
\* fields.
ManagerAfterFixture(m) == m

\* setup_in_memory_databases up to its yield.
FixtureSetup ==
  /\ Quiescent
  /\ predictions' = DeleteMany(predictions)
  /\ model' = ManagerAfterFixture(model)
  /\ ledgerGhost' = <<>>
  /\ histories' = <<>>
  /\ fixtureAt' = nDeser + 1
  /\ UNCHANGED <<current_model_id, models, files, platform, req, nDeser, idGen,
                 modelsGhost, okLoads, saves>>

\* setup_in_memory_databases after its yield.
FixtureTeardown ==
  /\ Quiescent
  /\ fixtureAt # 0
  /\ predictions' = DeleteMany(predictions)
  /\ ledgerGhost' = <<>>
  /\ histories' = <<>>
  /\ UNCHANGED <<model, current_model_id, models, files, platform, req, nDeser,
                 idGen, modelsGhost, okLoads, saves, fixtureAt>>

\* The routes driven by the integration tests.
NextTest ==
  \/ Next
  \/ FixtureSetup
  \/ FixtureTeardown

SpecTest == Init /\ [][NextTest]_vars

TypeOK ==
  /\ model.gen \in 0..MaxReq
  /\ current_model_id \in Hashes \cup {NoId}
  /\ Len(models) <= MaxReq
  /\ Len(predictions) <= MaxReq

\* -------------------------------------------------------------- claims --
\* Steps of request r, recognised from its position before and after.
LoadModelFails(r) ==
  req[r].pc = "read" /\ req'[r].pc = "done" /\ req'[r].src = "load_model"
GetModelRuns(r) == req[r].pc = "dep" /\ req'[r].pc # "dep"
InferSucceeds(r) ==
  req[r].pc = "body" /\ req'[r].pc = "done" /\ req'[r].status = 200

\* Position in the audit trail of the load that deserialized object gen g.
TrailIndex(g) == CHOOSE j \in 1..Len(modelsGhost) : modelsGhost[j].gen = g

\* a = b for two Python values, types included.
SameValue(a, b) == a.type = b.type /\ a.val = b.val

\* C1: a ModelManager.load_model call that fails (its except clause raises
\* the 500 'Erro ao carregar o modelo') leaves self.model and
\* self.current_model_id as they were before the call, and the audit trail
\* and ledger with them, so later inferences are served as before.
C1_FailedLoadKeepsSlot ==
  [][\A r \in Reqs : LoadModelFails(r) =>
        /\ req'[r].status = 500
        /\ req'[r].detail = "Erro ao carregar o modelo"
        /\ model' = model
        /\ current_model_id' = current_model_id
        /\ idGen' = idGen
        /\ models' = models]_vars

\* C1 witness: request 1 loaded a model, the load of request 2 then failed,
\* and the inference of request 3 was served by the object of request 1 and
\* recorded under the id of request 1.
C1_Witness ==
  /\ Len(modelsGhost) = 1 /\ modelsGhost[1].req = 1
  /\ req[2].src = "load_model" /\ req[2].status = 500
  /\ req[3].kind = "predict" /\ req[3].status = 200
  /\ Len(ledgerGhost) = 1
  /\ ledgerGhost[1].usedGen = modelsGhost[1].gen
  /\ predictions[1].model_id = models[1].model_id

C3_SlotIsLastSuccessfulLoad ==
  (~InWindow /\ Len(modelsGhost) > 0) =>
     LET n == Len(modelsGhost) IN
       /\ Len(models) = n
       /\ current_model_id = models[n].model_id
       /\ ~GetModelRaises(model)
       /\ model.gen = modelsGhost[n].gen
       /\ idGen = modelsGhost[n].gen

\* C3 witness: two loads succeeded, with different ids, and one failed.
C3_Witness ==
  /\ ~InWindow
  /\ Len(modelsGhost) = 2
  /\ models[1].model_id # models[2].model_id
  /\ \E r \in Reqs : req[r].src = "load_model"

\* C4: the audit trail is exactly the sequence of records of the load
\* requests that reported success, in order.
C4_TrailIsReportedSuccesses == models = okLoads

\* C5: the model_id of every ledger entry was issued by the load whose
\* object computed the entry's prediction value.
C5_RecordedIdIsUsedModel ==
  \A i \in 1..Len(ledgerGhost) : ledgerGhost[i].usedGen = ledgerGhost[i].idGen

\* C6: whenever a request is about to read the slot (its get_model is
\* pending), the slot is empty or holds the object and the id of one load.
SlotConsistent ==
  \/ model = NoModel /\ current_model_id = NoId
  \/ model # NoModel /\ current_model_id # NoId /\ model.gen = idGen
C6_NoHalfUpdatedSlot ==
  (\E r \in Reqs : req[r].pc = "dep") => SlotConsistent

\* C7: a successful inference served by the object of the most recent load
\* (no load between that load and the inference) adds exactly one entry to
\* the ledger, and the entry carries the id issued by that load.
C7_LoadThenInfer ==
  [][\A r \in Reqs : (InferSucceeds(r) /\ req[r].mdl.gen = nDeser) =>
        /\ Len(predictions') = Len(predictions) + 1
        /\ SubSeq(predictions', 1, Len(predictions)) = predictions
        /\ predictions'[Len(predictions')].model_id =
             models[TrailIndex(req[r].mdl.gen)].model_id]_vars

\* C7 witness: request 1 was a successful load, request 2 a successful
\* inference, nothing else happened, and the ledger holds one entry.
C7_Witness ==
  /\ req[1].kind = "load" /\ req[1].status = 200
  /\ req[2].kind = "predict" /\ req[2].status = 200
  /\ req[3].pc = "idle"
  /\ Len(predictions) = 1
  /\ predictions[1].model_id = models[1].model_id

\* C8: the payload of every ledger entry equals the submitted row field for
\* field, value and type.
C8_PayloadIsRowVerbatim ==
  \A i \in 1..Len(predictions) : \A f \in FieldNames :
     SameValue(predictions[i].payload[f], RowTable[ledgerGhost[i].row][f])

\* C9: the model_id of every ledger entry is not None and is the model_id of
\* a record of the audit trail.
C9_LedgerIdsInTrail ==
  \A i \in 1..Len(predictions) :
     /\ predictions[i].model_id # NoId
     /\ \E j \in 1..Len(models) : models[j].model_id = predictions[i].model_id

\* C9 witness: the ledger holds an entry written while the audit trail
\* holds a record, in a run where a load failed.
C9_Witness ==
  /\ Len(predictions) >= 1
  /\ Len(models) >= 1
  /\ \E r \in Reqs : req[r].src = "load_model"

\* C10: no two records of the audit trail carry the same model_id.
C10_ModelIdsUnique ==
  \A i, j \in 1..Len(models) : i # j => models[i].model_id # models[j].model_id

\* A history call is made in this step.
HistoryRuns == Len(histories') = Len(histories) + 1

\* Sequence a is the beginning of sequence b.
IsPrefix(a, b) == Len(a) <= Len(b) /\ \A i \in 1..Len(a) : a[i] = b[i]

\* C11: history returns every ledger entry, entry i of the result being the
\* ith entry appended, and no step reorders or removes what was appended: an
\* entry appended before another precedes it in every later result.
C11_HistoryInInsertionOrder ==
  [][/\ IsPrefix(predictions, predictions')
     /\ HistoryRuns =>
          LET h == histories'[Len(histories')].history IN
            /\ Len(h) = Len(predictions)
            /\ \A i \in 1..Len(predictions) :
                 /\ h[i].model_id = predictions[i].model_id
                 /\ h[i].prediction_time = predictions[i].prediction_time
                 /\ h[i].payload = predictions[i].payload
                 /\ h[i].prediction_value = predictions[i].prediction_value]_vars

\* C11 witness: a history result lists two entries that differ, in the order
\* they were appended.
C11_Witness ==
  /\ Len(histories) >= 1
  /\ LET h == histories[1].history IN
       /\ Len(h) = 2
       /\ h[1] # h[2]
       /\ h[1] = predictions[1]
       /\ h[2] = predictions[2]
       /\ ledgerGhost[1].req < ledgerGhost[2].req

\* C12: a history call changes neither the ledger, the audit trail nor the
\* active slot, and the history calls made with no ledger write between them
\* return the same sequence.
C12_HistoryReadOnlyIdempotent ==
  [][/\ HistoryRuns =>
          /\ predictions' = predictions
          /\ models' = models
          /\ model' = model
          /\ current_model_id' = current_model_id
     /\ \A i, j \in 1..Len(histories') : histories'[i] = histories'[j]]_vars

\* C12 witness: two history calls were made after the same ledger write and
\* returned the same non-empty sequence.
C12_Witness ==
  /\ Len(histories) = 2
  /\ Len(histories[1].history) >= 1
  /\ histories[2].history = histories[1].history

\* The predict call of request r, made in this step on a validated row,
\* raises.
PredictFails(r) ==
  /\ req[r].pc = "body" /\ req'[r].pc = "done"
  /\ Valid(FlightInfo(RowTable[req[r].row]))
  /\ ~Predict(req[r].mdl, InputData(FlightInfo(RowTable[req[r].row]))).ok

ErrorKinds == {"load_model", "get_model", "predict"}

SucceededInfers ==
  {r \in Reqs : req[r].kind = "predict" /\ req[r].pc = "done" /\ req[r].status = 200}

\* C15: the ledger holds exactly one entry per inference that succeeded,
\* overlapping or not: none is lost, none is written twice.
C15_NoLostAppend ==
  /\ Len(predictions) = Cardinality(SucceededInfers)
  /\ Len(ledgerGhost) = Len(predictions)
  /\ \A r \in SucceededInfers :
        Cardinality({i \in 1..Len(ledgerGhost) : ledgerGhost[i].req = r}) = 1

\* C15 witness: two inferences overlapped (the one that arrived second
\* appended first), both succeeded, and the ledger holds two entries.
C15_Witness ==
  /\ Cardinality(SucceededInfers) = 2
  /\ Len(predictions) = 2
  /\ ledgerGhost[1].req > ledgerGhost[2].req

\* C16: every ledger entry carries the four fields history reads, and every
\* history call is answered with 200.
C16_HistoryAlwaysSucceeds ==
  /\ \A i \in 1..Len(predictions) : HistoryFields \subseteq DOMAIN predictions[i]
  /\ \A i \in 1..Len(histories) : histories[i].status = 200

\* The load request r arrives in this step.
LoadArrives(r) == req[r].pc = "idle" /\ req'[r].kind = "load"

\* C17: a load request whose filename does not end in .pkl ends at once with
\* the 400 'O arquivo deve ser um arquivo .pkl', with no file written, nothing
\* deserialized and slot, trail and ledger unchanged; the requests that go on
\* to write and deserialize all carry a .pkl filename.
C17_NonPklRejectedFirst ==
  [][\A r \in Reqs : LoadArrives(r) =>
        IF req'[r].filename[2] # ".pkl"
          THEN /\ req'[r].pc = "done"
               /\ req'[r].status = 400
               /\ req'[r].detail = "O arquivo deve ser um arquivo .pkl"
               /\ files' = files
               /\ nDeser' = nDeser
               /\ model' = model
               /\ current_model_id' = current_model_id
               /\ models' = models
               /\ predictions' = predictions
          ELSE req'[r].pc = "read"]_vars

\* C17 witness: a .txt upload was rejected with 400 while a model loaded
\* earlier stays active, the trail holds its one record and no temp file
\* exists.
C17_Witness ==
  /\ \E r \in Reqs : /\ req[r].kind = "load" /\ req[r].status = 400
                      /\ req[r].filename = <<"a", ".txt">>
  /\ model # NoModel
  /\ Len(models) = 1
  /\ \A fn \in Filenames : files[fn] = NoFile

\* The predict request r, whose row breaks a validator, is answered in this
\* step.
InvalidRowAnswered(r) ==
  /\ req[r].pc \in {"dep", "body"} /\ req'[r].pc = "done"
  /\ ~Valid(FlightInfo(RowTable[req[r].row]))

\* C18: whether a model is loaded or not, a predict request whose row breaks
\* a validator is answered with 422, and the ledger is unchanged.
C18_InvalidRowIs422 ==
  [][\A r \in Reqs : InvalidRowAnswered(r) =>
        /\ req'[r].status = 422
        /\ predictions' = predictions]_vars

\* The load request r, which wrote a temp file, is answered in this step.
LoadFinishes(r) == req[r].pc \in {"read", "window"} /\ req'[r].pc = "done"

\* C19: when a load request that wrote its temp file is answered, with
\* success or with failure, the file no longer exists.
C19_TempFileRemoved ==
  [][\A r \in Reqs : LoadFinishes(r) => files'[req[r].filename] = NoFile]_vars

\* C20: once the fixture has run and no load has deserialized an object
\* since, the get_model of a predict request raises the 400 'O modelo nao foi
\* carregado.', whatever was loaded before the fixture ran.
C20_FixtureUnloadsModel ==
  [][\A r \in Reqs : (GetModelRuns(r) /\ fixtureAt = nDeser + 1) =>
        /\ req'[r].pc = "done"
        /\ req'[r].status = 400
        /\ req'[r].detail = "O modelo nao foi carregado."]_vars

\* The load request r, resumed after file.read(), writes its bytes and calls
\* ModelManager.load_model in this step.
LoadDeserializes(r) == req[r].pc = "read" /\ req'[r].pc # "read"

\* C21: load requests that share the temp path do not interfere: a request
\* that uploaded a valid artifact deserializes exactly that artifact and is
\* answered with 200, however the steps of the other requests interleave
\* with its own.
C21_SameNameLoadsIndependent ==
  [][\A r \in Reqs :
        /\ (LoadDeserializes(r) /\ req[r].content \in {"lin", "brk"}) =>
              /\ req'[r].pc = "window"
              /\ req'[r].mdl.art = req[r].content
        /\ (req[r].pc = "window" /\ req'[r].pc = "done") =>
              req'[r].status = 200]_vars

====
